---- MODULE Spec2Model ----
(***************************************************************************)
(* Model of contestthumbnailer.py: the comment parser (_parseComments),    *)
(* the image downloader, the two passes of the thumbnail poster layout,    *)
(* and the exit status of main.                                            *)
(*                                                                         *)
(* Text is modelled as a sequence of tokens.  Every token is a piece of    *)
(* text that the regular expressions and the str.replace calls of the      *)
(* program treat as a unit, so matching and replacing are computed on      *)
(* token boundaries.                                                       *)
(***************************************************************************)
EXTENDS Integers, Sequences, FiniteSets, TLC

\* ------------------------------------------------------------------ text
PEAKD == "https://peakd.com"
HIVEBLOG == "https://hive.blog"
ECENCY == "https://ecency.com"
IMG_HIVE_0x0 == "https://images.hive.blog/0x0/"
IMG_HIVE_P == "https://images.hive.blog/p/"
IMG_ECENCY_P == "https://images.ecency.com/p/"
SLASH == "/"
COMMUNITY == "/hive-174695/"
LOWER == "@bob/my-post"
EXT == ".png"
UPPER == "AbC"
SPACE == " "
NEWLINE == "\n"
\* the leading letters of a token of HttpsTokens, which both character
\* classes accept; it occurs in matches only, never in a comment body
HTTPS_LETTERS == "https"

Tokens ==
    {PEAKD, HIVEBLOG, ECENCY, IMG_HIVE_0x0, IMG_HIVE_P, IMG_ECENCY_P,
     SLASH, COMMUNITY, LOWER, EXT, UPPER, SPACE, NEWLINE}

\* tokens that begin with "https://"
HttpsTokens == {PEAKD, HIVEBLOG, ECENCY, IMG_HIVE_0x0, IMG_HIVE_P, IMG_ECENCY_P}
\* (?:peakd\.com|hive\.blog|ecency\.com)
PostHosts == {PEAKD, HIVEBLOG, ECENCY}
\* tokens that begin with "/" and lie in [a-z0-9_\-@\/\.]
SlashTokens == {SLASH, COMMUNITY}
\* [a-z0-9_\-@\/\.]
PostChars == {SLASH, COMMUNITY, LOWER, EXT}
\* [A-Za-z0-9_\-@\/]
ProxyChars == {SLASH, COMMUNITY, LOWER, UPPER}
\* \.(?:gif|jpg|png|jpeg)
ExtTokens == {EXT}
\* what "." matches: everything but a line break
DotTokens == Tokens \ {NEWLINE}

REGEX_IMAGE_URL == "REGEX_IMAGE_URL"
REGEX_POST_URL == "REGEX_POST_URL"

DEFAULT_IMAGE_URL == <<"https://files.peakd.com/file/peakd-hive/quantumg/23tSh9ZCk2m46Yy9XQeQErkwL99fsdQjsxH9A6T4WKyi7BCDs3y4Q6pE3zMfDF4ggv5TS", EXT>>

AUTHOR_BLACKLIST ==
    {"abdt","abiproud","adebayo22","airscam00","aliframadhan","aniascs","anne0208","aris-indonesia","artrage","assegai","ayahdindin","belovedave","boeh-u-leuping","bulukat2seung","camila-jhon","captain70","chipino","daniella619","danladi","deep.crypto","dreamchasers","dwixer","ellenklech","emerline","ferart01","fibre1","filipz","findoutmark","fudin-jfr","fundin-jfr","gabriella3594","getovertools","ghinamidrara","giftjames","gomessteem","hafis","hardiericsson","herman-sbd","holy.moly","iamdenny","icon-bassey","jhokenecty","kadyrova","kalkulus001","kamariah","kater001","khantika","kingobonnaya","lamboe","lexi01","lilpen","loco88","mawalampoehbujok","mcaspectacular","mcluz","mizuno35","mnzie01","mochi3","morenxo","nabilswap","nekbungoeng","nellysteem","nodzz","nurudeen081","oan-iata","oliver-liam","olenaginal","ontarget0","owleeya","peazy001","pictz","poundrickshaw","princedave12","quimby-art","raquel19","realmaya","sintiana","starksteem","steps100","tailah.bayu1","technoart","techy22","tember","twenty4","v0lga","vareya","weenyqueen","weirdartist","whizchick","yoe1974"}

\* end of the longest run of tokens of class cls that starts at position i
\* (i - 1 when the run is empty)
RECURSIVE RunEnd(_, _, _)
RunEnd(text, i, cls) ==
    IF i <= Len(text) /\ text[i] \in cls THEN RunEnd(text, i + 1, cls) ELSE i - 1

\* a character class repeated from position i on, after the tokens before i
\* have matched: the run of whole tokens of the class and, when the token
\* that stops the run begins with "https://", the letters "https" of it
RunFrom(text, first, i, cls) ==
    LET last == RunEnd(text, i, cls)
    IN  SubSeq(text, first, last) \o
        (IF last + 1 <= Len(text) /\ text[last + 1] \in HttpsTokens
         THEN <<HTTPS_LETTERS>> ELSE <<>>)

\* REGEX_POST_URL anchored at position i; <<>> when it does not match there
MatchPostAt(text, i) ==
    IF /\ text[i] \in PostHosts
       /\ i + 1 <= Len(text)
       /\ text[i + 1] \in SlashTokens
    THEN RunFrom(text, i, i + 1, PostChars)
    ELSE <<>>

\* REGEX_IMAGE_URL anchored at position i: the three alternatives in order,
\* the first one greedy up to the last extension of the line
MatchImageAt(text, i) ==
    LET lineEnd == RunEnd(text, i + 1, DotTokens)
        exts == {j \in (i + 1)..lineEnd : text[j] \in ExtTokens}
    IN  IF text[i] \in HttpsTokens /\ exts # {}
        THEN SubSeq(text, i, CHOOSE j \in exts : \A k \in exts : k <= j)
        ELSE IF text[i] \in {IMG_HIVE_P, IMG_ECENCY_P}
        THEN RunFrom(text, i, i + 1, ProxyChars)
        ELSE <<>>

MatchAt(text, regex, i) ==
    IF regex = REGEX_POST_URL THEN MatchPostAt(text, i) ELSE MatchImageAt(text, i)

\* re.search: the match at the leftmost position that has one
findByRegex(text, regex) ==
    LET hits == {i \in 1..Len(text) : MatchAt(text, regex, i) # <<>>}
    IN  IF hits = {} THEN <<>>
        ELSE MatchAt(text, regex, CHOOSE i \in hits : \A k \in hits : i <= k)

\* str.replace: every non-overlapping occurrence, left to right
RECURSIVE replace(_, _, _)
replace(s, old, new) ==
    IF Len(s) < Len(old) \/ s = <<>> THEN s
    ELSE IF SubSeq(s, 1, Len(old)) = old
         THEN new \o replace(SubSeq(s, Len(old) + 1, Len(s)), old, new)
         ELSE <<Head(s)>> \o replace(Tail(s), old, new)

parseCommentBody(comment) ==
    [postUrl |-> findByRegex(comment.body, REGEX_POST_URL),
     imageUrl |-> replace(findByRegex(comment.body, REGEX_IMAGE_URL), <<IMG_HIVE_0x0>>, <<>>),
     author |-> comment.author]

canonicalPostUrl_OneHost(postUrl) == replace(postUrl, <<HIVEBLOG>>, <<PEAKD>>)
canonicalPostUrl(postUrl) ==
    replace(replace(postUrl, <<HIVEBLOG>>, <<PEAKD>>), <<ECENCY>>, <<PEAKD>>)

\* ----------------------------------------------------------------- state
SeqsUpTo(S, n) == UNION {[1..k -> S] : k \in 0..n}

MAX_THUMBNAIL_WIDTH_IN_IMAGE == 160
THUMBNAIL_MARGIN_IN_IMAGE == 10
MAX_THUMBNAILS_PER_ROW_IN_IMAGE == 20

VARIABLES
    \* _parseComments
    comments, ci, parsedComments, lookups, ppc,
    \* _createThumbnailPoster and _calculateImageHeightByParsedComments
    thumbs, columns, thumbnailWidth, hi, height, hcol, hlargest,
    hostImage, pi, xy, col, largest, pasted, lpc,
    \* _downloadImagesFromParsedComments and _downloadImageFromParsedComment
    di, parsedCommentsOut, unprocessed, fetched, parsedComment, buffer, ipc, dpc,
    \* main
    args, mpc, exitStatus, feed, templates, saved

parseVars == <<comments, ci, parsedComments, lookups, ppc>>
layoutVars == <<thumbs, columns, thumbnailWidth, hi, height, hcol, hlargest,
                hostImage, pi, xy, col, largest, pasted, lpc>>
downloadVars == <<di, parsedCommentsOut, unprocessed, fetched, parsedComment, buffer, ipc, dpc>>
mainVars == <<args, mpc, exitStatus, feed, templates, saved>>
vars == <<parseVars, layoutVars, downloadVars, mainVars>>

NoImage == [w |-> 0, h |-> 0]

ParseIdle ==
    /\ comments = <<>>
    /\ ci = 1
    /\ parsedComments = <<>>
    /\ lookups = <<>>
    /\ ppc = "idle"

LayoutIdle ==
    /\ thumbs = <<>>
    /\ columns = 0
    /\ thumbnailWidth = 0
    /\ hi = 1
    /\ height = 0
    /\ hcol = 0
    /\ hlargest = 0
    /\ hostImage = NoImage
    /\ pi = 1
    /\ xy = <<0, 0>>
    /\ col = 0
    /\ largest = 0
    /\ pasted = <<>>
    /\ lpc = "idle"

\* the value None of parsedComment, and a parsedComment without imageObject
None == [isNone |-> TRUE]

DownloadIdle ==
    /\ di = 1
    /\ parsedCommentsOut = <<>>
    /\ unprocessed = 0
    /\ fetched = <<>>
    /\ parsedComment = None
    /\ buffer = "none"
    /\ ipc = "idle"
    /\ dpc = "idle"

NoArgs == [img |-> FALSE, html |-> FALSE, columns |-> 0, thumbwidth |-> 0]
NoTemplates == [body |-> "not loaded", image |-> "not loaded"]

MainIdle ==
    /\ args = NoArgs
    /\ mpc = "idle"
    /\ exitStatus = -1
    /\ feed = "not fetched"
    /\ templates = NoTemplates
    /\ saved = "not saved"

\* ------------------------------------------------ _createThumbnailPoster
MaxThumbs == 5
MaxColumns == 3
MaxRowLen == 22

Heights == {30, 40, 50, 60, 80}
\* decoded bitmaps: the proxy scales to the requested width, a smaller
\* original keeps its width
ImageSizes(width) ==
    {[w |-> width, h |-> h] : h \in Heights \ {60}} \cup {[w |-> width - 40, h |-> 60]}

\* the call _createThumbnailPoster(list, width, cols), up to the first
\* iteration of the height loop (lines 108-110)
PosterCalled(list, width, cols) ==
    /\ thumbs = list
    /\ columns = cols
    /\ thumbnailWidth = width
    /\ hi = 1
    /\ height = THUMBNAIL_MARGIN_IN_IMAGE
    /\ hcol = 0
    /\ hlargest = 0
    /\ hostImage = NoImage
    /\ pi = 1
    /\ xy = <<0, 0>>
    /\ col = 0
    /\ largest = 0
    /\ pasted = <<>>
    /\ lpc = "height"

\* one iteration of the loop of _calculateImageHeightByParsedComments
HeightStep ==
    /\ lpc = "height"
    /\ hi <= Len(thumbs)
    /\ LET imageHeight == thumbs[hi].h + THUMBNAIL_MARGIN_IN_IMAGE
       IN  IF hcol + 1 >= columns
           THEN /\ height' = height + hlargest
                /\ hcol' = 0
                /\ hlargest' = 0
           ELSE /\ hcol' = hcol + 1
                /\ hlargest' = IF hlargest < imageHeight THEN imageHeight ELSE hlargest
                /\ UNCHANGED height
    /\ hi' = hi + 1
    /\ UNCHANGED <<thumbs, columns, thumbnailWidth, hostImage, pi, xy, col, largest, pasted, lpc>>
    /\ UNCHANGED <<parseVars, downloadVars, mainVars>>

\* lines 122-125, then Image.new and the start of the placement (135-148)
HeightReturn ==
    /\ lpc = "height"
    /\ hi > Len(thumbs)
    /\ height' = (IF hcol > 0 THEN height + hlargest + THUMBNAIL_MARGIN_IN_IMAGE ELSE height)
                 + THUMBNAIL_MARGIN_IN_IMAGE
    /\ hostImage' = [w |-> ((thumbnailWidth + THUMBNAIL_MARGIN_IN_IMAGE) * columns)
                           + THUMBNAIL_MARGIN_IN_IMAGE,
                     h |-> height']
    /\ xy' = <<THUMBNAIL_MARGIN_IN_IMAGE, THUMBNAIL_MARGIN_IN_IMAGE>>
    /\ col' = 0
    /\ largest' = 0
    /\ lpc' = "font"
    /\ UNCHANGED <<thumbs, columns, thumbnailWidth, hi, hcol, hlargest, pi, pasted>>
    /\ UNCHANGED <<parseVars, downloadVars, mainVars>>

\* line 146: ImageFont.truetype raises when the font file cannot be read
LoadFont ==
    /\ lpc = "font"
    /\ \E loaded \in BOOLEAN : lpc' = IF loaded THEN "paste" ELSE "raised"
    /\ UNCHANGED <<thumbs, columns, thumbnailWidth, hi, height, hcol, hlargest,
                   hostImage, pi, xy, col, largest, pasted>>
    /\ UNCHANGED <<parseVars, downloadVars, mainVars>>

\* one iteration of the placement loop (lines 149-163)
PasteStep ==
    /\ lpc = "paste"
    /\ pi <= Len(thumbs)
    /\ LET thumbnail == thumbs[pi]
           tallest == IF largest < thumbnail.h THEN thumbnail.h ELSE largest
       IN  /\ pasted' = Append(pasted, [x |-> xy[1], y |-> xy[2],
                                        w |-> thumbnail.w, h |-> thumbnail.h])
           /\ IF col + 1 >= MAX_THUMBNAILS_PER_ROW_IN_IMAGE
              THEN /\ col' = 0
                   /\ xy' = <<THUMBNAIL_MARGIN_IN_IMAGE,
                              xy[2] + THUMBNAIL_MARGIN_IN_IMAGE + tallest>>
                   /\ largest' = 0
              ELSE /\ col' = col + 1
                   /\ xy' = <<xy[1] + THUMBNAIL_MARGIN_IN_IMAGE + thumbnail.w, xy[2]>>
                   /\ largest' = tallest
    /\ pi' = pi + 1
    /\ UNCHANGED <<thumbs, columns, thumbnailWidth, hi, height, hcol, hlargest, hostImage, lpc>>
    /\ UNCHANGED <<parseVars, downloadVars, mainVars>>

\* lines 165-167: hostImage.save raises when the file cannot be written
SavePoster ==
    /\ lpc = "paste"
    /\ pi > Len(thumbs)
    /\ \E written \in BOOLEAN : lpc' = IF written THEN "returned" ELSE "raised"
    /\ UNCHANGED <<thumbs, columns, thumbnailWidth, hi, height, hcol, hlargest,
                   hostImage, pi, xy, col, largest, pasted>>
    /\ UNCHANGED <<parseVars, downloadVars, mainVars>>


\* ------------------------------------------------------- _parseComments
MaxComments == 3
MaxBodyLen == 3

Authors == {"abdt", "Abdt", "quantumg"}

\* comment bodies used when whole lists of comments are parsed
SampleBodies ==
    {<<LOWER, SPACE, IMG_HIVE_P, UPPER>>,
     <<PEAKD, COMMUNITY, LOWER>>,
     <<HIVEBLOG, COMMUNITY, LOWER, NEWLINE, IMG_HIVE_0x0, ECENCY, SLASH, LOWER, EXT>>}

\* what Comment(hivePermlink).get_votes() can do: fail, or return the voters
VoteResults ==
    {[fault |-> TRUE, voters |-> {}],
     [fault |-> FALSE, voters |-> {"shaka"}],
     [fault |-> FALSE, voters |-> {"lmac", "shaka"}]}
NoLookup == [fault |-> FALSE, voters |-> {"no lookup"}]


isBlacklisted_NoCheck(author) == FALSE
isBlacklisted(author) == author \in AUTHOR_BLACKLIST

votesVerdict_Uncaught(votes) ==
    IF votes.fault THEN "raise"
    ELSE IF "lmac" \in votes.voters THEN "accept" ELSE "skip"
\* lines 244-251: "skip" for a fault (bare except) or a missing marker
votesVerdict(votes) ==
    IF votes.fault THEN "skip"
    ELSE IF "lmac" \in votes.voters THEN "accept" ELSE "skip"

withDefaultImage_NoFlag(entry) ==
    IF entry.imageUrl = <<>>
    THEN [entry EXCEPT !.imageUrl = DEFAULT_IMAGE_URL]
    ELSE entry
withDefaultImage(entry) ==
    IF entry.imageUrl = <<>>
    THEN [entry EXCEPT !.imageUrl = DEFAULT_IMAGE_URL, !.isDefaultImage = TRUE]
    ELSE entry

appendEntry_Front(list, entry) == <<entry>> \o list
appendEntry(list, entry) == Append(list, entry)

\* lines 234-240 and 253-255: the entry a comment gives once it is accepted
entryOf(comment) ==
    LET body == parseCommentBody(comment)
    IN  withDefaultImage([postUrl |-> canonicalPostUrl(body.postUrl),
                          imageUrl |-> body.imageUrl,
                          author |-> body.author,
                          isDefaultImage |-> FALSE])

\* one iteration of the loop of _parseComments
ParseComment ==
    /\ ppc = "loop"
    /\ ci <= Len(comments)
    /\ LET comment == comments[ci]
       IN  IF isBlacklisted(comment.author) \/ parseCommentBody(comment).postUrl = <<>>
           THEN /\ lookups' = Append(lookups, NoLookup)
                /\ ci' = ci + 1
                /\ UNCHANGED <<comments, parsedComments, ppc>>
           ELSE \E votes \in VoteResults :
                /\ lookups' = Append(lookups, votes)
                /\ UNCHANGED comments
                /\ CASE votesVerdict(votes) = "accept" ->
                            /\ parsedComments' = appendEntry(parsedComments, entryOf(comment))
                            /\ ci' = ci + 1
                            /\ UNCHANGED ppc
                     [] votesVerdict(votes) = "skip" ->
                            /\ ci' = ci + 1
                            /\ UNCHANGED <<parsedComments, ppc>>
                     [] OTHER ->
                            /\ ppc' = "raised"
                            /\ UNCHANGED <<ci, parsedComments>>
    /\ UNCHANGED <<layoutVars, downloadVars, mainVars>>

ParseReturn ==
    /\ ppc = "loop"
    /\ ci > Len(comments)
    /\ ppc' = "returned"
    /\ UNCHANGED <<comments, ci, parsedComments, lookups>>
    /\ UNCHANGED <<layoutVars, downloadVars, mainVars>>

ParseStart ==
    /\ ci = 1
    /\ parsedComments = <<>>
    /\ lookups = <<>>
    /\ ppc = "loop"


\* ------------------------------------- _downloadImagesFromParsedComments
MaxEntries == 3

IGNORE_DEFAULT_IMAGES_IN_POSTER == TRUE

skipsDefaultImage(entry) == IGNORE_DEFAULT_IMAGES_IN_POSTER /\ entry.isDefaultImage

\* lines 47-56
DownloadCalled ==
    /\ di = 1
    /\ parsedCommentsOut = <<>>
    /\ unprocessed = 0
    /\ fetched = <<>>
    /\ parsedComment = None
    /\ buffer = "none"
    /\ ipc = "idle"
    /\ dpc = "loop"

\* lines 57-61 and 82-83: the next entry is skipped, or
\* _downloadImageFromParsedComment is entered and opens its buffer
DownloadNext ==
    /\ dpc = "loop"
    /\ ipc = "idle"
    /\ di <= Len(parsedComments)
    /\ IF skipsDefaultImage(parsedComments[di])
       THEN /\ di' = di + 1
            /\ fetched' = Append(fetched, "not fetched")
            /\ UNCHANGED <<parsedComment, buffer, ipc>>
       ELSE /\ parsedComment' = [isNone |-> FALSE, entry |-> parsedComments[di],
                                 imageObject |-> NoImage]
            /\ buffer' = "open"
            /\ ipc' = "request"
            /\ UNCHANGED <<di, fetched>>
    /\ UNCHANGED <<parsedCommentsOut, unprocessed, dpc>>
    /\ UNCHANGED <<parseVars, layoutVars, mainVars>>

\* lines 84-87 and 94-95: requests.get raises, or answers with a status
Request ==
    /\ ipc = "request"
    /\ \E r \in {"fault", "200", "404"} :
         /\ fetched' = Append(fetched, r)
         /\ CASE r = "fault" -> /\ ipc' = "left"
                                /\ dpc' = "raised"
                                /\ UNCHANGED parsedComment
              [] r = "200" -> /\ ipc' = "read"
                              /\ UNCHANGED <<parsedComment, dpc>>
              [] r = "404" -> /\ ipc' = "close"
                              /\ parsedComment' = None
                              /\ UNCHANGED dpc
    /\ UNCHANGED <<di, parsedCommentsOut, unprocessed, buffer>>
    /\ UNCHANGED <<parseVars, layoutVars, mainVars>>

\* lines 88-92: reading the chunks of the body into the buffer
ReadChunks ==
    /\ ipc = "read"
    /\ \E received \in BOOLEAN :
         IF received
         THEN ipc' = "decode" /\ UNCHANGED dpc
         ELSE ipc' = "left" /\ dpc' = "raised"
    /\ UNCHANGED <<di, parsedCommentsOut, unprocessed, fetched, parsedComment, buffer>>
    /\ UNCHANGED <<parseVars, layoutVars, mainVars>>

\* line 93: Image.open raises on a body that is no image
Decode ==
    /\ ipc = "decode"
    /\ \/ \E size \in ImageSizes(MAX_THUMBNAIL_WIDTH_IN_IMAGE) :
            /\ parsedComment' = [parsedComment EXCEPT !.imageObject = size]
            /\ ipc' = "close"
            /\ UNCHANGED dpc
       \/ /\ ipc' = "left"
          /\ dpc' = "raised"
          /\ UNCHANGED parsedComment
    /\ UNCHANGED <<di, parsedCommentsOut, unprocessed, fetched, buffer>>
    /\ UNCHANGED <<parseVars, layoutVars, mainVars>>

\* lines 96-98 and 62-67: close the buffer, return, count or append
CloseAndReturn ==
    /\ ipc = "close"
    /\ buffer' = "closed"
    /\ ipc' = "idle"
    /\ IF parsedComment.isNone
       THEN /\ unprocessed' = unprocessed + 1
            /\ UNCHANGED parsedCommentsOut
       ELSE /\ parsedCommentsOut' = Append(parsedCommentsOut, parsedComment)
            /\ UNCHANGED unprocessed
    /\ di' = di + 1
    /\ UNCHANGED <<fetched, parsedComment, dpc>>
    /\ UNCHANGED <<parseVars, layoutVars, mainVars>>

\* lines 69-72
DownloadReturn ==
    /\ dpc = "loop"
    /\ ipc = "idle"
    /\ di > Len(parsedComments)
    /\ dpc' = "returned"
    /\ UNCHANGED <<di, parsedCommentsOut, unprocessed, fetched, parsedComment, buffer, ipc>>
    /\ UNCHANGED <<parseVars, layoutVars, mainVars>>

\* ------------------------------------------------------------------ main
MaxFeed == 2

\* line 363-366 with _fetchComments (170-184): Comment() raises ValueError
\* (None is returned), the remote call raises something else, or the
\* replies are returned
FetchComments ==
    /\ mpc = "fetch"
    /\ \/ /\ feed' = "ValueError"
          /\ mpc' = "returned"
          /\ exitStatus' = 1
          /\ UNCHANGED parseVars
       \/ /\ feed' = "fault"
          /\ mpc' = "raised"
          /\ UNCHANGED <<exitStatus, parseVars>>
       \/ \E replies \in SeqsUpTo([author : Authors, body : SampleBodies], MaxFeed) :
          /\ feed' = "replies"
          /\ IF replies = <<>>
             THEN /\ mpc' = "returned"
                  /\ exitStatus' = 1
                  /\ UNCHANGED parseVars
             ELSE /\ mpc' = "parse"
                  /\ comments' = replies
                  /\ ci' = 1
                  /\ parsedComments' = <<>>
                  /\ lookups' = <<>>
                  /\ ppc' = "loop"
                  /\ UNCHANGED exitStatus
    /\ UNCHANGED <<args, templates, saved>>
    /\ UNCHANGED <<layoutVars, downloadVars>>

\* lines 371-380 and 388: after _parseComments has returned
Parsed ==
    /\ mpc = "parse"
    /\ ppc = "returned"
    /\ IF parsedComments = <<>>
       THEN /\ mpc' = "returned"
            /\ exitStatus' = 1
            /\ UNCHANGED downloadVars
       ELSE IF args.img
       THEN /\ mpc' = "download"
            /\ dpc' = "loop"
            /\ UNCHANGED <<exitStatus, di, parsedCommentsOut, unprocessed, fetched,
                           parsedComment, buffer, ipc>>
       ELSE /\ mpc' = "generate"
            /\ UNCHANGED <<exitStatus, downloadVars>>
    /\ UNCHANGED <<args, feed, templates, saved>>
    /\ UNCHANGED <<parseVars, layoutVars>>

\* lines 381-382: _createThumbnailPoster is called with the downloaded entries
Downloaded ==
    /\ mpc = "download"
    /\ dpc = "returned"
    /\ mpc' = "poster"
    /\ thumbs' = [k \in 1..Len(parsedCommentsOut) |-> parsedCommentsOut[k].imageObject]
    /\ columns' = args.columns
    /\ thumbnailWidth' = args.thumbwidth
    /\ height' = THUMBNAIL_MARGIN_IN_IMAGE
    /\ lpc' = "height"
    /\ UNCHANGED <<hi, hcol, hlargest, hostImage, pi, xy, col, largest, pasted>>
    /\ UNCHANGED <<args, exitStatus, feed, templates, saved>>
    /\ UNCHANGED <<parseVars, downloadVars>>

\* line 167: the only return of _createThumbnailPoster
posterReturnValue == TRUE

\* lines 382-386 and 405
PosterReturned ==
    /\ mpc = "poster"
    /\ lpc = "returned"
    /\ mpc' = "returned"
    /\ exitStatus' = IF posterReturnValue THEN 0 ELSE 1
    /\ UNCHANGED <<args, feed, templates, saved>>
    /\ UNCHANGED <<parseVars, layoutVars, downloadVars>>

\* an exception raised by the download or by the poster leaves main, which
\* has no try (_parseComments raises none, its lookups are inside a try)
Propagate ==
    /\ (mpc = "download" /\ dpc = "raised") \/ (mpc = "poster" /\ lpc = "raised")
    /\ mpc' = "raised"
    /\ UNCHANGED <<args, exitStatus, feed, templates, saved>>
    /\ UNCHANGED <<parseVars, layoutVars, downloadVars>>

\* _loadTemplateFile gives None for a missing file, a falsy '' for an empty one
TemplateStates == {"missing", "empty", "text"}

\* lines 288-291 and 313-316: False unless both templates have content
createMarkdown(tpl) ==
    IF tpl.body # "text" \/ tpl.image # "text" THEN "False" ELSE "text"

\* lines 389-396
Generate ==
    /\ mpc = "generate"
    /\ \E tpl \in [body : TemplateStates, image : TemplateStates] :
         /\ templates' = tpl
         /\ IF createMarkdown(tpl) = "False"
            THEN mpc' = "returned" /\ exitStatus' = 1
            ELSE mpc' = "save" /\ UNCHANGED exitStatus
    /\ UNCHANGED <<args, feed, saved>>
    /\ UNCHANGED <<parseVars, layoutVars, downloadVars>>

\* line 351: the only return of _saveMarkdownToDisk that can be reached,
\* open() raises instead of returning a falsy value (lines 345-347)
saveReturnValue == TRUE

\* lines 399-405 with _saveMarkdownToDisk (342-351)
Save ==
    /\ mpc = "save"
    /\ \E opened \in BOOLEAN :
         IF opened
         THEN /\ saved' = "written"
              /\ mpc' = "returned"
              /\ exitStatus' = IF saveReturnValue THEN 0 ELSE 1
         ELSE /\ saved' = "fault"
              /\ mpc' = "raised"
              /\ UNCHANGED exitStatus
    /\ UNCHANGED <<args, feed, templates>>
    /\ UNCHANGED <<parseVars, layoutVars, downloadVars>>

\* -------------------------------------------------------- specifications
InitParse ==
    /\ comments \in SeqsUpTo([author : Authors, body : SampleBodies], MaxComments)
    /\ ParseStart
    /\ LayoutIdle
    /\ DownloadIdle
    /\ MainIdle

InitParseBody ==
    /\ comments \in {<<c>> : c \in [author : Authors, body : SeqsUpTo(Tokens, MaxBodyLen)]}
    /\ ParseStart
    /\ LayoutIdle
    /\ DownloadIdle
    /\ MainIdle

NextParse == ParseComment \/ ParseReturn

SpecParse == InitParse /\ [][NextParse]_vars
SpecParseBody == InitParseBody /\ [][NextParse]_vars

ColumnArgs == 1..MaxColumns \cup {MAX_THUMBNAILS_PER_ROW_IN_IMAGE}

InitLayout ==
    /\ \E width \in {MAX_THUMBNAIL_WIDTH_IN_IMAGE} :
       \E cols \in ColumnArgs :
       \E list \in SeqsUpTo(ImageSizes(width), MaxThumbs)
                   \cup {[k \in 1..n |-> [w |-> width, h |-> 50]] : n \in 1..MaxRowLen} :
            PosterCalled(list, width, cols)
    /\ ParseIdle
    /\ DownloadIdle
    /\ MainIdle

NextLayout == HeightStep \/ HeightReturn \/ LoadFont \/ PasteStep \/ SavePoster

SpecLayout == InitLayout /\ [][NextLayout]_vars

SampleEntries ==
    {entryOf([author |-> a, body |-> b]) :
        a \in {"Abdt", "quantumg"}, b \in {x \in SampleBodies : findByRegex(x, REGEX_POST_URL) # <<>>}}

InitDownload ==
    /\ comments = <<>>
    /\ ci = 1
    /\ parsedComments \in SeqsUpTo(SampleEntries, MaxEntries)
    /\ lookups = <<>>
    /\ ppc = "idle"
    /\ DownloadCalled
    /\ LayoutIdle
    /\ MainIdle

NextDownload ==
    DownloadNext \/ Request \/ ReadChunks \/ Decode \/ CloseAndReturn \/ DownloadReturn

SpecDownload == InitDownload /\ [][NextDownload]_vars

InitMain ==
    /\ args \in [img : BOOLEAN, html : BOOLEAN,
                 columns : {1, MAX_THUMBNAILS_PER_ROW_IN_IMAGE},
                 thumbwidth : {MAX_THUMBNAIL_WIDTH_IN_IMAGE}]
    /\ mpc = "fetch"
    /\ exitStatus = -1
    /\ feed = "not fetched"
    /\ templates = NoTemplates
    /\ saved = "not saved"
    /\ ParseIdle
    /\ DownloadIdle
    /\ LayoutIdle

NextMain ==
    \/ FetchComments \/ Parsed \/ Downloaded \/ PosterReturned \/ Propagate
    \/ Generate \/ Save
    \/ NextParse \/ NextDownload \/ NextLayout

SpecMain == InitMain /\ [][NextMain]_vars

\* ---------------------------------------------- properties of _parseComments
\* the comments whose lookup returned votes with the marker, in input order
AcceptedIdx ==
    SelectSeq([k \in 1..Len(lookups) |-> k],
              LAMBDA k : ~lookups[k].fault /\ "lmac" \in lookups[k].voters)

HasPostLink(body) ==
    \E i \in 1..(Len(body) - 1) : body[i] \in PostHosts /\ body[i + 1] \in SlashTokens

\* C2: no entry of the output of _parseComments has an author of
\* AUTHOR_BLACKLIST (exact match), whatever the order of the comments and
\* the outcomes of the lookups.
C2_NoBlacklistedAuthor ==
    \A m \in 1..Len(parsedComments) : parsedComments[m].author \notin AUTHOR_BLACKLIST

C2_Witness ==
    /\ ppc = "returned"
    /\ \E k \in 1..Len(comments) : comments[k].author = "abdt" /\ HasPostLink(comments[k].body)
    /\ \E m \in 1..Len(parsedComments) : parsedComments[m].author = "Abdt"
    /\ Len(comments) = 3
    /\ comments[1].author = "Abdt" /\ comments[2].author = "abdt"

\* C3: every entry has a non-empty imageUrl; isDefaultImage is true exactly
\* when no image link was extracted from its comment, and then imageUrl is
\* DEFAULT_IMAGE_URL; otherwise imageUrl is the extracted link.  Stripping
\* the 0x0 prefix never turns a matched link into an empty one.
C3_ImageUrlAndDefaultFlag ==
    /\ Len(parsedComments) = Len(AcceptedIdx)
    /\ \A m \in 1..Len(parsedComments) :
         LET entry == parsedComments[m]
             body == comments[AcceptedIdx[m]].body
             matched == findByRegex(body, REGEX_IMAGE_URL)
             extracted == parseCommentBody(comments[AcceptedIdx[m]]).imageUrl
         IN  /\ entry.imageUrl # <<>>
             /\ (matched = <<>>) <=> (extracted = <<>>)
             /\ entry.isDefaultImage <=> (extracted = <<>>)
             /\ extracted = <<>> => entry.imageUrl = DEFAULT_IMAGE_URL
             /\ extracted # <<>> => entry.imageUrl = extracted

C3_Witness ==
    /\ ppc = "returned"
    /\ Len(parsedComments) = 1
    /\ parsedComments[1].isDefaultImage
    /\ parsedComments[1].imageUrl = DEFAULT_IMAGE_URL
    /\ comments[1].body = <<HIVEBLOG, COMMUNITY, LOWER>>

\* C4: the output is the list of the entries of exactly the comments that are
\* not blocklisted, have a submission link and whose lookup succeeded with
\* the marker, one entry each, in the order of the input.
C4_Qualifies(k) ==
    /\ comments[k].author \notin AUTHOR_BLACKLIST
    /\ HasPostLink(comments[k].body)
    /\ ~lookups[k].fault
    /\ "lmac" \in lookups[k].voters

C4_OrderPreservingSubsequence ==
    LET idx == SelectSeq([k \in 1..Len(lookups) |-> k], C4_Qualifies)
    IN  /\ Len(lookups) = ci - 1
        /\ Len(parsedComments) = Len(idx)
        /\ \A m \in 1..Len(idx) : parsedComments[m] = entryOf(comments[idx[m]])

C4_Witness ==
    /\ ppc = "returned"
    /\ Len(comments) = 3
    /\ Len(parsedComments) = 2
    /\ parsedComments[1] = entryOf(comments[1])
    /\ parsedComments[2] = entryOf(comments[3])
    /\ parsedComments[1] # parsedComments[2]

\* C5: a lookup that raises a fault or returns votes without the marker drops
\* that one comment only: the loop goes on with the next comment, the entries
\* accepted so far stay as they are, no exception leaves _parseComments and
\* every comment has been processed when it returns.
C5_BadLookup(votes) == votes \in VoteResults /\ (votes.fault \/ "lmac" \notin votes.voters)

C5_LookupFaultDropsOneEntry ==
    /\ [][(/\ Len(lookups') = Len(lookups) + 1
           /\ C5_BadLookup(lookups'[Len(lookups')]))
          => (/\ ppc' = "loop"
              /\ ci' = ci + 1
              /\ parsedComments' = parsedComments)]_vars
    /\ [](ppc # "raised")
    /\ [](ppc = "returned" => Len(lookups) = Len(comments))

C5_Witness ==
    /\ ppc = "returned"
    /\ Len(lookups) = 3
    /\ "lmac" \in lookups[1].voters
    /\ lookups[2].fault
    /\ "lmac" \in lookups[3].voters
    /\ Len(parsedComments) = 2

\* C9: every entry has a non-empty postUrl on the host peakd.com, whose path
\* is the path of the link matched in its comment; a link on hive.blog or
\* ecency.com is moved to peakd.com; a comment without a link on one of the
\* three hosts gives no entry.
C9_CanonicalPostUrl ==
    /\ Len(parsedComments) = Len(AcceptedIdx)
    /\ \A m \in 1..Len(parsedComments) :
         LET postUrl == parsedComments[m].postUrl
             body == comments[AcceptedIdx[m]].body
             link == findByRegex(body, REGEX_POST_URL)
         IN  /\ HasPostLink(body)
             /\ Len(postUrl) >= 2
             /\ postUrl[1] = PEAKD
             /\ postUrl[2] \in SlashTokens
             /\ link[1] \in PostHosts
             /\ Tail(postUrl) = Tail(link)
             /\ \A i \in 2..Len(postUrl) : postUrl[i] \notin HttpsTokens

C9_Witness ==
    /\ ppc = "returned"
    /\ comments[1].body = <<ECENCY, COMMUNITY, LOWER>>
    /\ Len(parsedComments) = 1
    /\ parsedComments[1].postUrl = <<PEAKD, COMMUNITY, LOWER>>

\* ------------------------------------------------- properties of the layout
Max(a, b) == IF a < b THEN b ELSE a

RECURSIVE C1_Tallest(_)
C1_Tallest(row) == IF row = <<>> THEN 0 ELSE Max(Head(row).h, C1_Tallest(Tail(row)))

\* the sum, over the consecutive chunks of cols thumbnails, of the tallest
\* height of the chunk plus the margin
RECURSIVE C1_Rows(_, _)
C1_Rows(list, cols) ==
    IF list = <<>> THEN 0
    ELSE LET n == IF Len(list) < cols THEN Len(list) ELSE cols
         IN  C1_Tallest(SubSeq(list, 1, n)) + THUMBNAIL_MARGIN_IN_IMAGE
             + C1_Rows(SubSeq(list, n + 1, Len(list)), cols)

\* C1: _calculateImageHeightByParsedComments returns margin + the sum over
\* the rows of (tallest height of the row + margin) + margin, the rows being
\* the consecutive chunks of `columns` thumbnails.
C1_HeightIsSumOfRowMaxima ==
    lpc \in {"font", "paste", "returned", "raised"} =>
        height = THUMBNAIL_MARGIN_IN_IMAGE + C1_Rows(thumbs, columns)
                 + THUMBNAIL_MARGIN_IN_IMAGE

\* C10: every thumbnail is pasted inside the canvas: x + width is at most the
\* canvas width and y + height at most the canvas height.
C10_PastedInsideCanvas ==
    \A k \in 1..Len(pasted) :
        /\ pasted[k].x + pasted[k].w <= hostImage.w
        /\ pasted[k].y + pasted[k].h <= hostImage.h

\* ----------------------------------------------- properties of the download
C7_FetchedIdx ==
    SelectSeq([k \in 1..Len(fetched) |-> k],
              LAMBDA k : ~parsedComments[k].isDefaultImage /\ fetched[k] = "200")

\* C7: _downloadImagesFromParsedComments returns the entries that are no
\* default-image entries and whose fetch had a success status, in input order;
\* a default-image entry is not fetched, an entry with another status is
\* counted as unprocessed, and no failed fetch ends the processing early.
C7_DownloadsSubsequence ==
    /\ dpc # "raised"
    /\ dpc = "returned" =>
         /\ Len(fetched) = Len(parsedComments)
         /\ \A k \in 1..Len(fetched) :
              parsedComments[k].isDefaultImage <=> fetched[k] = "not fetched"
         /\ Len(parsedCommentsOut) = Len(C7_FetchedIdx)
         /\ \A m \in 1..Len(parsedCommentsOut) :
              parsedCommentsOut[m].entry = parsedComments[C7_FetchedIdx[m]]
         /\ unprocessed = Cardinality({k \in 1..Len(fetched) : fetched[k] = "404"})

\* C8: whenever _downloadImageFromParsedComment has been left, by a return or
\* by an exception, the buffer it opened is closed.
C8_BufferClosedOnExit ==
    ipc \in {"idle", "left"} => buffer # "open"

\* ------------------------------------------------------ properties of main
C6_Failure ==
    \/ feed \in {"ValueError", "fault"}
    \/ ppc = "returned" /\ parsedComments = <<>>
    \/ feed = "replies" /\ comments = <<>>
    \/ templates # NoTemplates /\ createMarkdown(templates) = "False"
    \/ lpc = "raised"
    \/ saved = "fault"

\* C6: main returns 1 when the feed fetch fails, when no entry survives, when
\* the templates are missing, when the poster could not be written or when
\* saving the document fails, and 0 in every other run.
C6_ExitStatus ==
    mpc \in {"returned", "raised"} =>
        /\ mpc = "returned"
        /\ exitStatus = IF C6_Failure THEN 1 ELSE 0

====
